---------------------------- MODULE Spec2Model ----------------------------
(***************************************************************************)
(* A model of fastcrypto-tbls/src/polynomial.rs: polynomials over a scalar *)
(* field or over a group of the same prime order, their evaluation and     *)
(* commitment, the Lagrange coefficient engine with its native/field split *)
(* and the recovery of the constant term.                                  *)
(*                                                                         *)
(* Widths are scaled so that TLC can enumerate them: the u128 of the       *)
(* source is an unsigned integer of NativeBits bits, a ShareIndex is a     *)
(* nonzero unsigned integer up to MaxIndex, the scalar field is F_P and    *)
(* the group is the subgroup of order P of the units modulo Q, written     *)
(* additively in the source (a + b is a*b mod Q, a * s is a^s mod Q).      *)
(* As in the source every index is smaller than the field order.           *)
(***************************************************************************)
EXTENDS Integers, Sequences, FiniteSets, TLC

VARIABLES poly, supplied, ret

vars == <<poly, supplied, ret>>

---------------------------------------------------------------------------
(* Scaled widths and the algebraic collaborators. *)

NativeBits == 4

P == 7

Q == 29

GroupGen == 16

(* Bounds of the enumeration. *)
MaxLen == 2

MaxShares == 3

MaxIndex == 5

RECURSIVE Pow2(_)
Pow2(n) == IF n = 0 THEN 1 ELSE 2 * Pow2(n - 1)

NativeMod == Pow2(NativeBits)

Native == 0 .. (NativeMod - 1)

\* ShareIndex: a nonzero unsigned integer
ShareIndex == 1 .. MaxIndex

Scalars == 0 .. (P - 1)

RECURSIVE PowQ(_, _)
PowQ(a, s) == IF s = 0 THEN 1 ELSE (a * PowQ(a, s - 1)) % Q

GroupElems == { PowQ(GroupGen, s) : s \in Scalars }

(* The coefficient types: the scalar field itself, or the group. *)
Kinds == {"Scalar", "Group"}

Elems(C) == IF C = "Scalar" THEN Scalars ELSE GroupElems

CZero(C) == IF C = "Scalar" THEN 0 ELSE 1

CGen(C) == IF C = "Scalar" THEN 1 ELSE GroupGen

CAdd(C, a, b) == IF C = "Scalar" THEN (a + b) % P ELSE (a * b) % Q

\* a * s for an element a and a scalar s
CMul(C, a, s) == IF C = "Scalar" THEN (a * s) % P ELSE PowQ(a, s)

\* ScalarType::from(u128)
ScalarFrom(x) == x % P

ScalarNeg(a) == (P - a) % P

\* Scalar division: an error on a zero denominator
ScalarDiv(a, b) ==
    IF b % P = 0 THEN [tag |-> "Err"]
    ELSE [tag |-> "Ok",
          val |-> (a * (CHOOSE x \in 1 .. (P - 1) : (b * x) % P = 1)) % P]

---------------------------------------------------------------------------
(* Poly<C>: a kind and the vector of coefficients. *)

SeqsUpTo(S, lo, hi) == UNION { [1 .. n -> S] : n \in lo .. hi }

\* (len - 1) as u32: the subtraction underflows on an empty vector
degree(c) == IF Len(c) >= 1 THEN [tag |-> "Ok", val |-> Len(c) - 1] ELSE [tag |-> "Underflow"]

zero(C) == <<CZero(C)>>

\* &self.0[0]: an index out of range on an empty vector
c0(c) == IF Len(c) >= 1 THEN [tag |-> "Ok", val |-> c[1]] ELSE [tag |-> "Panic"]

\* add without the resize: the zip stops at the shorter vector
add_nopad(C, self, other) ==
    [k \in 1 .. Len(self) |->
        IF k <= Len(other) THEN CAdd(C, self[k], other[k]) ELSE self[k]]

add(C, self, other) ==
    LET n == IF Len(self) < Len(other) THEN Len(other) ELSE Len(self)
        resized == [k \in 1 .. n |-> IF k <= Len(self) THEN self[k] ELSE CZero(C)]
    IN  [k \in 1 .. n |->
            IF k <= Len(other) THEN CAdd(C, resized[k], other[k]) ELSE resized[k]]

RECURSIVE Horner(_, _, _, _, _)
\* the fold of eval over the reversed coefficients, from position k down to 1
Horner(C, coeffs, xi, k, sum) ==
    IF k = 0 THEN sum
    ELSE Horner(C, coeffs, xi, k - 1, CAdd(C, CMul(C, sum, xi), coeffs[k]))

eval(C, coeffs, i) ==
    [index |-> i, value |-> Horner(C, coeffs, ScalarFrom(i), Len(coeffs), CZero(C))]

\* rand over 0..degree, the upper end left out
rand_exclusive(d, rng) == [k \in 1 .. d |-> rng[k]]

rand(d, rng) == [k \in 1 .. (d + 1) |-> rng[k]]

\* commit with the coefficients in the opposite order
commit_reversed(coeffs) ==
    [k \in 1 .. Len(coeffs) |->
        CMul("Group", CGen("Group"), coeffs[Len(coeffs) + 1 - k])]

commit(coeffs) == [k \in 1 .. Len(coeffs) |-> CMul("Group", CGen("Group"), coeffs[k])]

\* verify_share against the constant term instead of the evaluation at idx
verify_share_c0(coeffs, idx, share) ==
    LET e == CMul("Group", CGen("Group"), share)
    IN  IF coeffs[1] = e THEN "Ok" ELSE "InvalidInput"

verify_share(coeffs, idx, share) ==
    LET e == CMul("Group", CGen("Group"), share)
        pub_eval == eval("Group", coeffs, idx)
    IN  IF pub_eval.value = e THEN "Ok" ELSE "InvalidInput"

---------------------------------------------------------------------------
(* The Lagrange coefficient engine. *)

RECURSIVE Bits(_)
\* the position of the highest set bit: NativeBits - leading_zeros
Bits(x) == IF x = 0 THEN 0 ELSE 1 + Bits(x \div 2)

leading_zeros(x) == NativeBits - Bits(x)

\* index.get() as u128
AsNative(i) == i % NativeMod

\* fast_mult without the check: the native product, wrapped
fast_mult_unchecked(x, y) == [tag |-> "Right", val |-> (x * y) % NativeMod]

fast_mult(x, y) ==
    IF leading_zeros(x) >= (NativeBits - leading_zeros(y))
    THEN [tag |-> "Right", val |-> (x * y) % NativeMod]
    ELSE [tag |-> "Left", scalar |-> ScalarFrom(x), rest |-> y]

RECURSIVE TryFoldIndices_nocheck(_, _, _, _)
\* the try_fold without the check for duplicates
TryFoldIndices_nocheck(shares, k, ids_set, vec) ==
    IF k > Len(shares) THEN [tag |-> "Ok", val |-> vec]
    ELSE TryFoldIndices_nocheck(shares, k + 1, ids_set \cup {shares[k].index},
                                Append(vec, AsNative(shares[k].index)))

RECURSIVE TryFoldIndices(_, _, _, _)
\* the try_fold over the shares: the first repeated index ends it
TryFoldIndices(shares, k, ids_set, vec) ==
    IF k > Len(shares) THEN [tag |-> "Ok", val |-> vec]
    ELSE IF shares[k].index \in ids_set THEN [tag |-> "Err"]
    ELSE TryFoldIndices(shares, k + 1, ids_set \cup {shares[k].index},
                        Append(vec, AsNative(shares[k].index)))

RECURSIVE FullNumerator(_, _, _)
FullNumerator(indices, k, acc) ==
    IF k > Len(indices) THEN acc
    ELSE FullNumerator(indices, k + 1, CMul("Scalar", acc, ScalarFrom(indices[k])))

\* one step of the denominator fold, for the index i and another index j
DenominatorStep(st, i, j) ==
    LET diff == IF i > j THEN i - j ELSE j - i
        negative == IF i > j THEN ~st.negative ELSE st.negative
        either == fast_mult(st.remaining, diff)
    IN  IF either.tag = "Left"
        THEN [prev_acc |-> CMul("Scalar", st.prev_acc, either.scalar),
              remaining |-> either.rest, negative |-> negative]
        ELSE [prev_acc |-> st.prev_acc, remaining |-> either.val, negative |-> negative]

RECURSIVE DenominatorFold(_, _, _, _)
\* the fold over the indices other than i, from position k on
DenominatorFold(indices, i, k, st) ==
    IF k > Len(indices) THEN st
    ELSE IF indices[k] = i THEN DenominatorFold(indices, i, k + 1, st)
    ELSE DenominatorFold(indices, i, k + 1, DenominatorStep(st, i, indices[k]))

\* the initial value of the fold: (ScalarType::from(i), 1u128), negative = false
DenominatorInit(i) == [prev_acc |-> ScalarFrom(i), remaining |-> 1, negative |-> FALSE]

\* the denominator without the negation
Denominator_unsigned(indices, i) ==
    LET st == DenominatorFold(indices, i, 1, DenominatorInit(i))
    IN  CMul("Scalar", st.prev_acc, ScalarFrom(st.remaining))

Denominator(indices, i) ==
    LET st == DenominatorFold(indices, i, 1, DenominatorInit(i))
        d == CMul("Scalar", st.prev_acc, ScalarFrom(st.remaining))
    IN  IF st.negative THEN ScalarNeg(d) ELSE d

RECURSIVE Coefficients(_, _, _, _)
\* the loop over the indices; a failed division is the panic of expect
Coefficients(indices, full_numerator, k, coeffs) ==
    IF k > Len(indices) THEN [tag |-> "Ok", val |-> coeffs]
    ELSE LET coeff == ScalarDiv(full_numerator, Denominator(indices, indices[k]))
         IN  IF coeff.tag = "Err" THEN [tag |-> "PanicDivision"]
             ELSE Coefficients(indices, full_numerator, k + 1, Append(coeffs, coeff.val))

RECURSIVE SortedSeq(_)
SortedSeq(S) ==
    IF S = {} THEN <<>>
    ELSE LET m == CHOOSE x \in S : \A y \in S : x <= y
         IN  <<m>> \o SortedSeq(S \ {m})

\* the coefficients in the order of the set of indices, not of the shares
get_lagrange_coefficients_set_order(t, shares) ==
    LET indices == TryFoldIndices(shares, 1, {}, <<>>)
    IN  IF indices.tag = "Err" THEN [tag |-> "InvalidInput"]
        ELSE IF Len(indices.val) # t THEN [tag |-> "InvalidInput"]
        ELSE LET sorted == SortedSeq({indices.val[k] : k \in 1 .. Len(indices.val)})
             IN  Coefficients(sorted, FullNumerator(sorted, 1, CGen("Scalar")), 1, <<>>)

\* the count check as "fewer than t"
get_lagrange_coefficients_at_least(t, shares) ==
    LET indices == TryFoldIndices(shares, 1, {}, <<>>)
    IN  IF indices.tag = "Err" THEN [tag |-> "InvalidInput"]
        ELSE IF Len(indices.val) < t THEN [tag |-> "InvalidInput"]
        ELSE Coefficients(indices.val,
                          FullNumerator(indices.val, 1, CGen("Scalar")), 1, <<>>)

get_lagrange_coefficients_for_c0(t, shares) ==
    LET indices == TryFoldIndices(shares, 1, {}, <<>>)
    IN  IF indices.tag = "Err" THEN [tag |-> "InvalidInput"]
        ELSE IF Len(indices.val) # t THEN [tag |-> "InvalidInput"]
        ELSE Coefficients(indices.val,
                          FullNumerator(indices.val, 1, CGen("Scalar")), 1, <<>>)

RECURSIVE WeightedFold(_, _, _, _, _)
\* coeffs.iter().zip(plain_shares).fold(zero, acc + s * c)
WeightedFold(C, coeffs, shares, k, acc) ==
    IF k > Len(coeffs) \/ k > Len(shares) THEN acc
    ELSE WeightedFold(C, coeffs, shares, k + 1,
                      CAdd(C, acc, CMul(C, shares[k].value, coeffs[k])))

recover_c0(C, t, shares) ==
    LET coeffs == get_lagrange_coefficients_for_c0(t, shares)
    IN  IF coeffs.tag # "Ok" THEN coeffs
        ELSE [tag |-> "Ok", val |-> WeightedFold(C, coeffs.val, shares, 1, CZero(C))]

RECURSIVE MsmSum(_, _, _, _)
MsmSum(C, scalars, points, k) ==
    IF k > Len(scalars) THEN CZero(C)
    ELSE CAdd(C, CMul(C, points[k], scalars[k]), MsmSum(C, scalars, points, k + 1))

\* MultiScalarMul: the weighted sum, an error when the lengths differ
multi_scalar_mul(C, scalars, points) ==
    IF Len(scalars) # Len(points) THEN [tag |-> "Err"]
    ELSE [tag |-> "Ok", val |-> MsmSum(C, scalars, points, 1)]

\* recover_c0_msm with the values collected in the opposite order
recover_c0_msm_reversed(C, t, shares) ==
    LET coeffs == get_lagrange_coefficients_for_c0(t, shares)
    IN  IF coeffs.tag # "Ok" THEN coeffs
        ELSE LET plain_shares ==
                     [k \in 1 .. Len(shares) |-> shares[Len(shares) + 1 - k].value]
                 res == multi_scalar_mul(C, coeffs.val, plain_shares)
             IN  IF res.tag = "Err" THEN [tag |-> "PanicSizes"] ELSE res

recover_c0_msm(C, t, shares) ==
    LET coeffs == get_lagrange_coefficients_for_c0(t, shares)
    IN  IF coeffs.tag # "Ok" THEN coeffs
        ELSE LET plain_shares == [k \in 1 .. Len(shares) |-> shares[k].value]
                 res == multi_scalar_mul(C, coeffs.val, plain_shares)
             IN  IF res.tag = "Err" THEN [tag |-> "PanicSizes"] ELSE res

---------------------------------------------------------------------------
NoCall == [op |-> "none"]

NoShares == [kind |-> "Scalar", seq |-> <<>>]

\* the polynomial a program starts with, before any call
Init ==
    /\ poly = [kind |-> "Scalar", coeffs |-> zero("Scalar")]
    /\ supplied = NoShares
    /\ ret = NoCall

Polys(C) == SeqsUpTo(Elems(C), 1, MaxLen)

(* A constructor starts the life of the polynomial the model follows. *)
Zero ==
    /\ ret = NoCall
    /\ \E C \in Kinds : poly' = [kind |-> C, coeffs |-> zero(C)]
    /\ ret' = [op |-> "zero"]
    /\ UNCHANGED supplied

\* From<Vec<C>>, called with a non-empty vector
From ==
    /\ ret = NoCall
    /\ \E C \in Kinds : \E v \in Polys(C) : poly' = [kind |-> C, coeffs |-> v]
    /\ ret' = [op |-> "from"]
    /\ UNCHANGED supplied

\* the rng is the sequence of scalars it hands out
Rand ==
    /\ ret = NoCall
    /\ \E d \in 0 .. (MaxLen - 1) : \E rng \in [1 .. MaxLen -> Scalars] :
          /\ poly' = [kind |-> "Scalar", coeffs |-> rand(d, rng)]
          /\ ret' = [op |-> "rand", degree |-> d]
    /\ UNCHANGED supplied

\* the polynomials added: each coefficient is the additive identity or the
\* generator, whose sums reach every polynomial
Addends(C) == SeqsUpTo({CZero(C), CGen(C)}, 1, MaxLen)

Add ==
    \E other \in Addends(poly.kind) :
        /\ poly' = [poly EXCEPT !.coeffs = add(poly.kind, poly.coeffs, other)]
        /\ ret' = [op |-> "add", self |-> poly.coeffs, other |-> other]
        /\ UNCHANGED supplied

Commit ==
    /\ poly.kind = "Scalar"
    /\ poly' = [kind |-> "Group", coeffs |-> commit(poly.coeffs)]
    /\ ret' = [op |-> "commit", self |-> poly.coeffs]
    /\ UNCHANGED supplied

Eval ==
    \E i \in ShareIndex :
        /\ ret' = [op |-> "eval", idx |-> i, res |-> eval(poly.kind, poly.coeffs, i)]
        /\ UNCHANGED <<poly, supplied>>

\* verify_share is called on a public polynomial
VerifyShare ==
    /\ poly.kind = "Group"
    /\ \E i \in ShareIndex : \E share \in Scalars :
          ret' = [op |-> "verify_share", idx |-> i, share |-> share,
                  res |-> verify_share(poly.coeffs, i, share)]
    /\ UNCHANGED <<poly, supplied>>

Degree ==
    /\ ret' = [op |-> "degree", res |-> degree(poly.coeffs)]
    /\ UNCHANGED <<poly, supplied>>

C0 ==
    /\ ret' = [op |-> "c0", res |-> c0(poly.coeffs)]
    /\ UNCHANGED <<poly, supplied>>

Next ==
    \/ Zero
    \/ From
    \/ Rand
    \/ Add
    \/ Commit
    \/ Eval
    \/ VerifyShare
    \/ Degree
    \/ C0

Spec == Init /\ [][Next]_vars

---------------------------------------------------------------------------
(* Properties of the container, of commit and of verify_share (Spec).      *)

\* coefficient k of a polynomial, the additive identity past its end
CoefficientAt(C, c, k) == IF k <= Len(c) THEN c[k] ELSE CZero(C)

Longer(a, b) == IF Len(a) < Len(b) THEN Len(b) ELSE Len(a)

\* the scalars a group element is the generator times
Logarithms(e) == { s \in Scalars : CMul("Group", CGen("Group"), s) = e }

\* a private polynomial that a public polynomial is the commitment of
Committed(coeffs) == [k \in 1 .. Len(coeffs) |-> CHOOSE s \in Scalars : s \in Logarithms(coeffs[k])]

\* C2: on the commitment of f, verify_share(i, s) is Ok exactly when s is
\* f.eval(i).value, and InvalidInput for every other scalar s.
C2_VerificationSoundness ==
    ret.op = "verify_share" =>
        LET f == Committed(poly.coeffs)
        IN  /\ commit(f) = poly.coeffs
            /\ \A k \in 1 .. Len(f) : Logarithms(poly.coeffs[k]) = {f[k]}
            /\ ret.res = "Ok" <=> ret.share = eval("Scalar", f, ret.idx).value
            /\ ret.res = "Ok" <=>
                  CMul("Group", CGen("Group"), ret.share)
                      = eval("Group", poly.coeffs, ret.idx).value
            /\ ret.res # "Ok" => ret.res = "InvalidInput"

\* a share that is the negation of the correct one, and differs from it, is refused
C2_Witness ==
    /\ ret.op = "verify_share"
    /\ Len(poly.coeffs) = MaxLen
    /\ ret.res = "InvalidInput"
    /\ Committed(poly.coeffs)[MaxLen] # 0
    /\ ret.share # 0
    /\ ret.share = ScalarNeg(eval("Scalar", Committed(poly.coeffs), ret.idx).value)

\* C5: commit keeps the number of coefficients, maps coefficient k of f to
\* generator * f[k], and f.commit().eval(i) is (i, generator * f.eval(i).value)
\* for every index i.
C5_CommitmentConsistency ==
    ret.op = "commit" =>
        /\ poly.kind = "Group"
        /\ Len(poly.coeffs) = Len(ret.self)
        /\ \A k \in 1 .. Len(ret.self) :
              poly.coeffs[k] = CMul("Group", CGen("Group"), ret.self[k])
        /\ \A i \in ShareIndex :
              eval("Group", poly.coeffs, i) =
                  [index |-> i,
                   value |-> CMul("Group", CGen("Group"),
                                  eval("Scalar", ret.self, i).value)]

C5_Witness ==
    /\ ret.op = "commit"
    /\ Len(ret.self) = MaxLen
    /\ \A k \in 1 .. MaxLen : ret.self[k] # 0
    /\ ret.self[1] # ret.self[MaxLen]

\* C8: after a.add(b), a has max(len a, len b) coefficients, coefficient k is
\* old_a[k] + b[k] with a missing coefficient taken as the additive identity,
\* and the coefficients are those b.add(a) gives.
C8_AddPadded ==
    ret.op = "add" =>
        /\ Len(poly.coeffs) = Longer(ret.self, ret.other)
        /\ \A k \in 1 .. Longer(ret.self, ret.other) :
              poly.coeffs[k] = CAdd(poly.kind, CoefficientAt(poly.kind, ret.self, k),
                                    CoefficientAt(poly.kind, ret.other, k))
        /\ poly.coeffs = add(poly.kind, ret.other, ret.self)

\* a shorter self is padded, and a leading coefficient that cancels stays
C8_Witness ==
    /\ ret.op = "add"
    /\ Len(ret.self) < Len(ret.other)
    /\ Len(poly.coeffs) = MaxLen
    /\ poly.coeffs[MaxLen] # CZero(poly.kind)
    /\ poly.coeffs[1] # ret.other[1]

C8_WitnessCancel ==
    /\ ret.op = "add"
    /\ Len(ret.self) = MaxLen
    /\ ret.self[MaxLen] # CZero(poly.kind)
    /\ poly.coeffs[MaxLen] = CZero(poly.kind)

\* C10: every polynomial has at least one coefficient, rand(d) has d + 1 of
\* them, degree() is len - 1 without underflow and c0() is in range.
C10_NonEmpty ==
    /\ Len(poly.coeffs) >= 1
    /\ ret.op = "rand" => Len(poly.coeffs) = ret.degree + 1
    /\ ret.op = "degree" => ret.res = [tag |-> "Ok", val |-> Len(poly.coeffs) - 1]
    /\ ret.op = "c0" => ret.res = [tag |-> "Ok", val |-> poly.coeffs[1]]

C10_Witness ==
    /\ ret.op = "degree"
    /\ poly.kind = "Group"
    /\ ret.res = [tag |-> "Ok", val |-> MaxLen - 1]
    /\ poly.coeffs[MaxLen] = CZero("Group")

---------------------------------------------------------------------------
(* The recovery calls, on any sequence of shares a caller can pass: the    *)
(* initial state draws the arguments and a behaviour is one call on them   *)
(* (the calls are pure, nothing is carried from one to the next).          *)

\* recovery is linear in the values of the shares: each is the additive
\* identity or the generator
ShareValues(C) == {CZero(C), CGen(C)}

Evals(C) == [index : ShareIndex, value : ShareValues(C)]

ShareSeqs(C) == SeqsUpTo(Evals(C), 0, MaxShares)

Thresholds == 0 .. MaxShares

InitRecover ==
    /\ poly = [kind |-> "Scalar", coeffs |-> zero("Scalar")]
    /\ \E C \in Kinds : \E seq \in ShareSeqs(C) : supplied = [kind |-> C, seq |-> seq]
    /\ ret = NoCall

RecoverC0 ==
    /\ ret = NoCall
    /\ \E t \in Thresholds :
          ret' = [op |-> "recover_c0", t |-> t,
                  coeffs |-> get_lagrange_coefficients_for_c0(t, supplied.seq),
                  res |-> recover_c0(supplied.kind, t, supplied.seq)]
    /\ UNCHANGED <<poly, supplied>>

\* only a group has the multi-scalar multiplication
RecoverC0Msm ==
    /\ ret = NoCall
    /\ supplied.kind = "Group"
    /\ \E t \in Thresholds :
          ret' = [op |-> "recover_c0_msm", t |-> t,
                  coeffs |-> get_lagrange_coefficients_for_c0(t, supplied.seq),
                  res |-> recover_c0_msm(supplied.kind, t, supplied.seq)]
    /\ UNCHANGED <<poly, supplied>>

\* fast_mult takes two numbers and no shares
FastMult ==
    /\ ret = NoCall
    /\ supplied.seq = <<>>
    /\ \E x \in Native : \E y \in Native :
          ret' = [op |-> "fast_mult", x |-> x, y |-> y, res |-> fast_mult(x, y)]
    /\ UNCHANGED <<poly, supplied>>

NextRecover ==
    \/ RecoverC0
    \/ RecoverC0Msm
    \/ FastMult

SpecRecover == InitRecover /\ [][NextRecover]_vars

---------------------------------------------------------------------------
(* A dealer's round trip: a private polynomial is evaluated at a set of as  *)
(* many indices as it has coefficients and the shares, in the order of     *)
(* their indices, go to recover_c0 with that number as the threshold (the  *)
(* other orders of a sequence of shares are those of SpecRecover).         *)

InitRoundTrip ==
    /\ \E f \in SeqsUpTo(Scalars, 1, MaxShares) : poly = [kind |-> "Scalar", coeffs |-> f]
    /\ supplied = NoShares
    /\ ret = NoCall

\* the sets of n indices, each as the sequence of its elements in order
IndexSeqs(n) ==
    { s \in [1 .. n -> ShareIndex] : \A a, b \in 1 .. n : a < b => s[a] < s[b] }

ShareAndRecover ==
    /\ ret = NoCall
    /\ \E ids \in IndexSeqs(Len(poly.coeffs)) :
          LET t == Len(poly.coeffs)
              shares == [k \in 1 .. t |-> eval("Scalar", poly.coeffs, ids[k])]
          IN  /\ supplied' = [kind |-> "Scalar", seq |-> shares]
              /\ ret' = [op |-> "recover_c0", t |-> t,
                         coeffs |-> get_lagrange_coefficients_for_c0(t, shares),
                         res |-> recover_c0("Scalar", t, shares)]
    /\ UNCHANGED poly

NextRoundTrip == ShareAndRecover

SpecRoundTrip == InitRoundTrip /\ [][NextRoundTrip]_vars

---------------------------------------------------------------------------
(* Properties of the coefficient engine and of the recovery (SpecRecover). *)

Recovering == ret.op \in {"recover_c0", "recover_c0_msm"}

IndexAt(k) == supplied.seq[k].index

\* the indices are pairwise distinct as ShareIndex
DistinctIndices ==
    \A a, b \in 1 .. Len(supplied.seq) : a # b => IndexAt(a) # IndexAt(b)

\* the indices are pairwise distinct and nonzero as elements of the field
DistinctInField ==
    /\ \A a \in 1 .. Len(supplied.seq) : ScalarFrom(IndexAt(a)) # 0
    /\ \A a, b \in 1 .. Len(supplied.seq) :
          a # b => ScalarFrom(IndexAt(a)) # ScalarFrom(IndexAt(b))

InvalidInput == [tag |-> "InvalidInput"]

\* C1: the shares f.eval(i) of a polynomial f of degree d at d + 1 indices,
\* pairwise distinct and nonzero in the field, recover with t = d + 1 to
\* Ok with f's constant term; for t = 1 the only coefficient is the
\* multiplicative identity and the result is the value of the share.
C1_RoundTrip ==
    (ret.op = "recover_c0" /\ supplied.kind = "Scalar" /\ poly.kind = "Scalar"
        /\ ret.t = Len(poly.coeffs) /\ Len(supplied.seq) = ret.t /\ DistinctInField
        /\ \A k \in 1 .. ret.t : supplied.seq[k] = eval("Scalar", poly.coeffs, IndexAt(k)))
    => /\ ret.res = [tag |-> "Ok", val |-> poly.coeffs[1]]
       /\ ret.res = [tag |-> "Ok", val |-> c0(poly.coeffs).val]
       /\ ret.t = 1 => /\ ret.coeffs = [tag |-> "Ok", val |-> <<CGen("Scalar")>>]
                       /\ ret.res.val = supplied.seq[1].value

\* three shares of a polynomial of degree two, recovered to a constant term
\* that none of the shares has
C1_Witness ==
    /\ ret.op = "recover_c0"
    /\ ret.t = 3
    /\ Len(poly.coeffs) = 3
    /\ poly.coeffs[3] # 0
    /\ poly.coeffs[1] # 0
    /\ \A k \in 1 .. 3 : supplied.seq[k] = eval("Scalar", poly.coeffs, IndexAt(k))
    /\ \A k \in 1 .. 3 : supplied.seq[k].value # poly.coeffs[1]
    /\ ret.res = [tag |-> "Ok", val |-> poly.coeffs[1]]

\* C3: a sequence of shares with the same index at two positions is refused
\* with InvalidInput, by recover_c0 and by recover_c0_msm, for every t.
C3_DuplicateRejection ==
    (Recovering /\ ~DistinctIndices) =>
        /\ ret.res = InvalidInput
        /\ ret.coeffs = InvalidInput

\* the repeated index is not adjacent, and the count equals t
C3_Witness ==
    /\ ret.op = "recover_c0_msm"
    /\ Len(supplied.seq) = 3
    /\ ret.t = 3
    /\ IndexAt(1) = IndexAt(3)
    /\ IndexAt(1) # IndexAt(2)
    /\ ret.res = InvalidInput

\* C4: pairwise-distinct shares whose number differs from t are refused with
\* InvalidInput; only exactly t shares can succeed.
C4_CountMismatch ==
    Recovering =>
        /\ (DistinctIndices /\ Len(supplied.seq) # ret.t) => ret.res = InvalidInput
        /\ ret.res.tag = "Ok" => Len(supplied.seq) = ret.t

\* t + 1 distinct shares
C4_Witness ==
    /\ ret.op = "recover_c0"
    /\ DistinctIndices
    /\ ret.t = 2
    /\ Len(supplied.seq) = ret.t + 1
    /\ ret.res = InvalidInput

C4_WitnessFewer ==
    /\ ret.op = "recover_c0_msm"
    /\ DistinctIndices
    /\ ret.t = 3
    /\ Len(supplied.seq) = ret.t - 1
    /\ ret.res = InvalidInput

\* the permutations of 1 .. n, for each n
Reorderings ==
    [n \in 0 .. MaxShares |->
        { q : q \in { p \in [1 .. n -> 1 .. n] :
                         \A a, b \in 1 .. n : a # b => p[a] # p[b] } }] @@ <<>>

Permuted(seq, p) == [k \in 1 .. Len(seq) |-> seq[p[k]]]

\* the place of share k when the shares are put in the order of their indices
Rank(seq, k) == Cardinality({ j \in 1 .. Len(seq) : seq[j].index <= seq[k].index })

InIndexOrder(seq) ==
    [r \in 1 .. Len(seq) |-> seq[CHOOSE k \in 1 .. Len(seq) : Rank(seq, k) = r]]

\* C6: t shares with pairwise-distinct indices recover to the same result in
\* every order, and each coefficient stays with the index it was computed for
\* (it is the coefficient that index has when the shares come in index order).
C6_OrderInvariance ==
    (ret.op = "recover_c0" /\ DistinctIndices /\ Len(supplied.seq) = ret.t) =>
        /\ \A p \in Reorderings[ret.t] :
              recover_c0(supplied.kind, ret.t, Permuted(supplied.seq, p)) = ret.res
        /\ LET c == get_lagrange_coefficients_for_c0(ret.t, InIndexOrder(supplied.seq))
           IN  /\ c.tag = "Ok"
               /\ ret.coeffs.tag = "Ok"
               /\ \A k \in 1 .. ret.t : ret.coeffs.val[k] = c.val[Rank(supplied.seq, k)]

\* three shares given out of order, with values that differ
C6_Witness ==
    /\ ret.op = "recover_c0"
    /\ DistinctIndices
    /\ Len(supplied.seq) = 3
    /\ ret.t = 3
    /\ IndexAt(1) > IndexAt(2)
    /\ IndexAt(2) < IndexAt(3)
    /\ supplied.seq[1].value # supplied.seq[2].value
    /\ ret.res.tag = "Ok"
    /\ ret.res.val # CZero(supplied.kind)

\* C7: recover_c0_msm and recover_c0 have the same outcome on every input,
\* and the length mismatch of the multi-scalar multiplication is never met.
C7_MsmEquivalence ==
    /\ ret.op = "recover_c0_msm" =>
          /\ ret.res = recover_c0(supplied.kind, ret.t, supplied.seq)
          /\ ret.res.tag # "PanicSizes"
    /\ (ret.op = "recover_c0" /\ supplied.kind = "Group") =>
          ret.res = recover_c0_msm(supplied.kind, ret.t, supplied.seq)

C7_Witness ==
    /\ ret.op = "recover_c0_msm"
    /\ Len(supplied.seq) = 3
    /\ ret.res.tag = "Ok"
    /\ ret.res.val # CZero("Group")
    /\ supplied.seq[1].value # supplied.seq[3].value

RECURSIVE DifferenceProduct(_, _, _)
\* in the field: i times the absolute differences to the other indices of seq[1..m]
DifferenceProduct(indices, i, m) ==
    IF m = 0 THEN ScalarFrom(i)
    ELSE IF indices[m] = i THEN DifferenceProduct(indices, i, m - 1)
    ELSE LET d == IF i > indices[m] THEN i - indices[m] ELSE indices[m] - i
         IN  (DifferenceProduct(indices, i, m - 1) * ScalarFrom(d)) % P

RECURSIVE SignedProduct(_, _, _)
\* in the field: x_i times the product of x_j - x_i over the other indices
SignedProduct(indices, i, m) ==
    IF m = 0 THEN ScalarFrom(i)
    ELSE IF indices[m] = i THEN SignedProduct(indices, i, m - 1)
    ELSE (SignedProduct(indices, i, m - 1)
            * ((ScalarFrom(indices[m]) + P - ScalarFrom(i)) % P)) % P

RECURSIVE IndexProduct(_, _)
IndexProduct(indices, m) ==
    IF m = 0 THEN 1 ELSE (IndexProduct(indices, m - 1) * ScalarFrom(indices[m])) % P

\* the Lagrange coefficient for x = 0 of index i, computed in the field alone
FieldCoefficient(indices, i) ==
    ScalarDiv(IndexProduct(indices, Len(indices)),
              SignedProduct(indices, i, Len(indices)))

SuppliedIndices == [k \in 1 .. Len(supplied.seq) |-> IndexAt(k)]

\* C9: fast_mult gives the native product only when it fits, and otherwise
\* (field(x), y); throughout the fold prev_acc * field(remaining) is i times
\* the differences so far, and each coefficient is the one of the field.
C9_NativeSplit ==
    /\ ret.op = "fast_mult" =>
          /\ ret.res.tag = "Right" =>
                (ret.x * ret.y < NativeMod /\ ret.res.val = ret.x * ret.y)
          /\ ret.res.tag # "Right" =>
                ret.res = [tag |-> "Left", scalar |-> ScalarFrom(ret.x), rest |-> ret.y]
    /\ (Recovering /\ DistinctIndices /\ Len(supplied.seq) = ret.t) =>
          /\ \A k \in 1 .. Len(supplied.seq) : \A m \in 0 .. Len(supplied.seq) :
                LET st == DenominatorFold(SubSeq(SuppliedIndices, 1, m), IndexAt(k), 1,
                                          DenominatorInit(IndexAt(k)))
                IN  CMul("Scalar", st.prev_acc, ScalarFrom(st.remaining))
                        = DifferenceProduct(SuppliedIndices, IndexAt(k), m)
          /\ ret.coeffs.tag = "Ok" =>
                \A k \in 1 .. Len(supplied.seq) :
                    [tag |-> "Ok", val |-> ret.coeffs.val[k]]
                        = FieldCoefficient(SuppliedIndices, IndexAt(k))

\* a fold that leaves the native width with a running product above one
C9_Witness ==
    /\ Recovering
    /\ DistinctIndices
    /\ ret.coeffs.tag = "Ok"
    /\ Len(supplied.seq) = 3
    /\ \E k \in 1 .. 3 :
          LET st == DenominatorFold(SubSeq(SuppliedIndices, 1, 2), IndexAt(k), 1,
                                    DenominatorInit(IndexAt(k)))
              d == IF IndexAt(k) > IndexAt(3) THEN IndexAt(k) - IndexAt(3)
                   ELSE IndexAt(3) - IndexAt(k)
          IN  /\ k # 3
              /\ st.remaining > 1
              /\ fast_mult(st.remaining, d).tag = "Left"

C9_WitnessNative ==
    /\ ret.op = "fast_mult"
    /\ ret.res.tag = "Right"
    /\ ret.res.val > ret.x
    /\ ret.res.val > ret.y

=============================================================================
